---- MODULE Spec2Model ----
(***************************************************************************)
(* Model of src/src/App.tsx: the Q&A import normalizer (parseAnyQAPairs    *)
(* and the pair extractors), the export payload, and the App component's   *)
(* working set (meta, pairs), local persistence, import, reset and         *)
(* submission handlers.                                                    *)
(*                                                                         *)
(* Strings are sequences of one-character strings, so that trim() is       *)
(* computed.  A text (the import text, a request body) is the sequence of  *)
(* its JSON tokens and line breaks; JSON.parse is a parser over that       *)
(* sequence and JSON.stringify produces it.  The local store keeps the     *)
(* text the save effect wrote by the meta and pairs it was written from,   *)
(* and JSON.parse of it builds the document again; Unparseable stands for  *)
(* a stored text JSON.parse rejects.                                       *)
(***************************************************************************)
EXTENDS Integers, Sequences, FiniteSets

VARIABLES
    phase,          \* "mount" before the first render's effects ran, then "ready"
    meta,           \* useState<BotMeta>            (App.tsx:330)
    pairs,          \* useState<QAPair[]>           (App.tsx:342)
    store,          \* localStorage["umass-chatbot-builder"]
    importOpen,     \* useState(false)              (App.tsx:345)
    importText,     \* useState("{}")               (App.tsx:346)
    submitState,    \* "idle" | "success" | "error" (App.tsx:353)
    submitMessage,  \* banner text                  (App.tsx:354)
    inflight,       \* POSTs to SUBMIT_URL awaiting their response
    given,          \* working set handed to a direct call of exportPayload
    jsonText,       \* argument of a direct call of parseAnyQAPairs
    outcome,        \* what that call returned or threw
    pc              \* position of the direct-call harness

vars == <<phase, meta, pairs, store, importOpen, importText, submitState,
          submitMessage, inflight, given, jsonText, outcome, pc>>

sessionVars == <<phase, meta, pairs, store, importOpen, importText, submitState,
                 submitMessage, inflight>>

callVars == <<given, jsonText, outcome, pc>>

-----------------------------------------------------------------------------
(* Bounds                                                                  *)

MaxPairs == 2

MaxLines == 3

MaxInflight == 1

MaxEmailLen == 5

MaxSlugLen == 4

MaxMembers == 3

-----------------------------------------------------------------------------
(* Strings                                                                 *)

IsSpace(c) == c \in {" ", "\t", "\n"}

RECURSIVE TrimStart(_)
TrimStart(s) ==
    IF s # <<>> /\ IsSpace(Head(s)) THEN TrimStart(Tail(s)) ELSE s

RECURSIVE TrimEnd(_)
TrimEnd(s) ==
    IF s # <<>> /\ IsSpace(s[Len(s)]) THEN TrimEnd(SubSeq(s, 1, Len(s) - 1)) ELSE s

\* String.prototype.trim
Trim(s) == TrimEnd(TrimStart(s))

RECURSIVE JoinWith(_, _)
\* Array.prototype.join on a sequence of strings
JoinWith(ss, sep) ==
    IF ss = <<>> THEN <<>>
    ELSE IF Len(ss) = 1 THEN ss[1]
    ELSE ss[1] \o sep \o JoinWith(Tail(ss), sep)

RECURSIVE SplitOn(_, _, _)
\* String.prototype.split(c): cur is the piece being read
SplitOn(s, c, cur) ==
    IF s = <<>> THEN <<cur>>
    ELSE IF Head(s) = c THEN <<cur>> \o SplitOn(Tail(s), c, <<>>)
    ELSE SplitOn(Tail(s), c, Append(cur, Head(s)))

MapSeq(Op(_), s) == [i \in 1..Len(s) |-> Op(s[i])]

K_q == <<"q">>
K_a == <<"a">>
K_Q == <<"Q">>
K_A == <<"A">>
K_bot == <<"b", "o", "t">>
K_pairs == <<"p", "a", "i", "r", "s">>
K_data == <<"d", "a", "t", "a">>
K_faqs == <<"f", "a", "q", "s">>
K_items == <<"i", "t", "e", "m", "s">>
K_records == <<"r", "e", "c", "o", "r", "d", "s">>
K_question == <<"q", "u", "e", "s", "t", "i", "o", "n">>
K_prompt == <<"p", "r", "o", "m", "p", "t">>
K_ask == <<"a", "s", "k">>
K_query == <<"q", "u", "e", "r", "y">>
K_answer == <<"a", "n", "s", "w", "e", "r">>
K_response == <<"r", "e", "s", "p", "o", "n", "s", "e">>
K_text == <<"t", "e", "x", "t">>
K_tags == <<"t", "a", "g", "s">>
K_name == <<"n", "a", "m", "e">>
K_lab == <<"l", "a", "b">>
K_owner_email == <<"o", "w", "n", "e", "r", "_", "e", "m", "a", "i", "l">>
K_description == <<"d", "e", "s", "c", "r", "i", "p", "t", "i", "o", "n">>
K_slug == <<"s", "l", "u", "g">>
K_model == <<"m", "o", "d", "e", "l">>
K_embed_model == <<"e", "m", "b", "e", "d", "_", "m", "o", "d", "e", "l">>
K_temperature == <<"t", "e", "m", "p", "e", "r", "a", "t", "u", "r", "e">>
K_top_p == <<"t", "o", "p", "_", "p">>
K_created_at == <<"c", "r", "e", "a", "t", "e", "d", "_", "a", "t">>
K_version == <<"v", "e", "r", "s", "i", "o", "n">>
K_meta == <<"m", "e", "t", "a">>
K_id == <<"i", "d">>
K_botName == <<"b", "o", "t", "N", "a", "m", "e">>
K_ownerEmail == <<"o", "w", "n", "e", "r", "E", "m", "a", "i", "l">>
K_baseModel == <<"b", "a", "s", "e", "M", "o", "d", "e", "l">>
K_embedModel == <<"e", "m", "b", "e", "d", "M", "o", "d", "e", "l">>
K_topP == <<"t", "o", "p", "P">>

DefaultBaseModel ==
    <<"q", "w", "e", "n", "2", ".", "5", ":", "7", "b", "-", "i", "n", "s", "t", "r", "u", "c", "t">>

DefaultEmbedModel ==
    <<"n", "o", "m", "i", "c", "-", "e", "m", "b", "e", "d", "-", "t", "e", "x", "t">>

UntitledBot == <<"U", "n", "t", "i", "t", "l", "e", "d", " ", "B", "o", "t">>

VersionStr == <<"2", "0", "2", "5", "-", "0", "9", "-", "1", "6">>

ObjectObject ==
    <<"[", "o", "b", "j", "e", "c", "t", " ", "O", "b", "j", "e", "c", "t", "]">>

\* numbers are kept as their canonical decimal text
Num02 == <<"0", ".", "2">>

Num095 == <<"0", ".", "9", "5">>

-----------------------------------------------------------------------------
(* JavaScript values as JSON.parse builds them                             *)

JUndef == [t |-> "undefined"]

JNull == [t |-> "null"]

JBool(b) == [t |-> "bool", b |-> b]

JNum(lex) == [t |-> "num", s |-> lex]

JStr(s) == [t |-> "str", s |-> s]

JArr(items) == [t |-> "arr", items |-> items]

\* members: sequence of [k |-> key, v |-> value], in insertion order
JObj(members) == [t |-> "obj", members |-> members]

Member(k, v) == [k |-> k, v |-> v]

IsArray(x) == x.t = "arr"

\* typeof x === "object" && x (arrays and plain objects, not null)
IsObjectLike(x) == x.t \in {"arr", "obj"}

\* k in obj, for the property names the program asks about
HasKey(x, k) == x.t = "obj" /\ \E i \in 1..Len(x.members) : x.members[i].k = k

\* x[k]; JSON.parse keeps the last of duplicate keys
Get(x, k) ==
    IF HasKey(x, k)
    THEN LET last == CHOOSE i \in 1..Len(x.members) :
                         /\ x.members[i].k = k
                         /\ \A j \in (i + 1)..Len(x.members) : x.members[j].k # k
         IN  x.members[last].v
    ELSE JUndef

\* ToBoolean
Truthy(x) ==
    CASE x.t \in {"undefined", "null"} -> FALSE
      [] x.t = "bool" -> x.b
      [] x.t = "num" -> x.s # <<"0">>
      [] x.t = "str" -> x.s # <<>>
      [] OTHER -> TRUE

\* x || y
OrElse(x, y) == IF Truthy(x) THEN x ELSE y

RECURSIVE JsString(_)
\* String(x); Array.prototype.toString joins with "," and prints null and
\* undefined elements as the empty string
JsString(x) ==
    CASE x.t = "str" -> x.s
      [] x.t = "num" -> x.s
      [] x.t = "bool" -> IF x.b THEN <<"t", "r", "u", "e">> ELSE <<"f", "a", "l", "s", "e">>
      [] x.t = "null" -> <<"n", "u", "l", "l">>
      [] x.t = "undefined" -> <<"u", "n", "d", "e", "f", "i", "n", "e", "d">>
      [] x.t = "arr" ->
            JoinWith([i \in 1..Len(x.items) |->
                         IF x.items[i].t \in {"null", "undefined"} THEN <<>>
                         ELSE JsString(x.items[i])],
                     <<",">>)
      [] OTHER -> ObjectObject

\* coerceStr (App.tsx:87)
coerceStr(x) ==
    Trim(IF x.t = "str" THEN x.s
         ELSE IF x.t \in {"null", "undefined"} THEN <<>>
         ELSE JsString(x))

-----------------------------------------------------------------------------
(* Texts: sequences of JSON tokens and line breaks                         *)

TLBrack == [t |-> "["]

TRBrack == [t |-> "]"]

TLBrace == [t |-> "{"]

TRBrace == [t |-> "}"]

TComma == [t |-> ","]

TColon == [t |-> ":"]

TNl == [t |-> "nl"]

\* a lexeme that is no JSON token (a bare word, an unquoted key)
TBad == [t |-> "bad"]

TStr(s) == [t |-> "str", s |-> s]

TNum(lex) == [t |-> "num", s |-> lex]

TNull == [t |-> "null"]

TBool(b) == [t |-> "bool", b |-> b]

PFail == [ok |-> FALSE]

POk(v, n) == [ok |-> TRUE, v |-> v, n |-> n]

RECURSIVE SkipWs(_, _)
\* JSON white space between tokens: here the line breaks
SkipWs(toks, i) ==
    IF i <= Len(toks) /\ toks[i].t = "nl" THEN SkipWs(toks, i + 1) ELSE i

IsAt(toks, i, kind) == i <= Len(toks) /\ toks[i].t = kind

RECURSIVE ParseValue(_, _)
RECURSIVE ParseElements(_, _, _)
RECURSIVE ParseMembers(_, _, _)

\* JSON value starting at or after position i0
ParseValue(toks, i0) ==
    LET i == SkipWs(toks, i0) IN
    IF i > Len(toks) THEN PFail
    ELSE LET tk == toks[i] IN
         CASE tk.t = "str" -> POk(JStr(tk.s), i + 1)
           [] tk.t = "num" -> POk(JNum(tk.s), i + 1)
           [] tk.t = "null" -> POk(JNull, i + 1)
           [] tk.t = "bool" -> POk(JBool(tk.b), i + 1)
           [] tk.t = "[" ->
                 LET j == SkipWs(toks, i + 1) IN
                 IF IsAt(toks, j, "]") THEN POk(JArr(<<>>), j + 1)
                 ELSE ParseElements(toks, i + 1, <<>>)
           [] tk.t = "{" ->
                 LET j == SkipWs(toks, i + 1) IN
                 IF IsAt(toks, j, "}") THEN POk(JObj(<<>>), j + 1)
                 ELSE ParseMembers(toks, i + 1, <<>>)
           [] OTHER -> PFail

\* elements of an array after "[" or ","; acc holds those read so far
ParseElements(toks, i, acc) ==
    LET r == ParseValue(toks, i) IN
    IF ~r.ok THEN PFail
    ELSE LET j == SkipWs(toks, r.n) IN
         IF IsAt(toks, j, ",") THEN ParseElements(toks, j + 1, Append(acc, r.v))
         ELSE IF IsAt(toks, j, "]") THEN POk(JArr(Append(acc, r.v)), j + 1)
         ELSE PFail

\* members of an object after "{" or ","
ParseMembers(toks, i, acc) ==
    LET k == SkipWs(toks, i) IN
    IF ~IsAt(toks, k, "str") THEN PFail
    ELSE LET c == SkipWs(toks, k + 1) IN
         IF ~IsAt(toks, c, ":") THEN PFail
         ELSE LET r == ParseValue(toks, c + 1) IN
              IF ~r.ok THEN PFail
              ELSE LET j == SkipWs(toks, r.n)
                       m == Append(acc, Member(toks[k].s, r.v))
                   IN  IF IsAt(toks, j, ",") THEN ParseMembers(toks, j + 1, m)
                       ELSE IF IsAt(toks, j, "}") THEN POk(JObj(m), j + 1)
                       ELSE PFail

\* JSON.parse(text): [ok |-> TRUE, v |-> value] or [ok |-> FALSE] when it throws
JsonParse(toks) ==
    LET r == ParseValue(toks, 1) IN
    IF r.ok /\ SkipWs(toks, r.n) > Len(toks) THEN [ok |-> TRUE, v |-> r.v]
    ELSE PFail

RECURSIVE Flatten(_)
Flatten(ss) == IF ss = <<>> THEN <<>> ELSE Head(ss) \o Flatten(Tail(ss))

RECURSIVE Interleave(_, _)
\* the token sequences ss separated by the token sep
Interleave(ss, sep) ==
    IF ss = <<>> THEN <<>>
    ELSE IF Len(ss) = 1 THEN ss[1]
    ELSE ss[1] \o <<sep>> \o Interleave(Tail(ss), sep)

RECURSIVE JsonStringify(_)
\* JSON.stringify(x): no white space; a property whose value is undefined is
\* left out, an undefined array element is written null
JsonStringify(x) ==
    CASE x.t = "str" -> <<TStr(x.s)>>
      [] x.t = "num" -> <<TNum(x.s)>>
      [] x.t = "bool" -> <<TBool(x.b)>>
      [] x.t = "null" -> <<TNull>>
      [] x.t = "undefined" -> <<TNull>>
      [] x.t = "arr" ->
            <<TLBrack>>
            \o Interleave([i \in 1..Len(x.items) |-> JsonStringify(x.items[i])], TComma)
            \o <<TRBrack>>
      [] OTHER ->
            LET kept == SelectSeq(x.members, LAMBDA m : m.v.t # "undefined") IN
            <<TLBrace>>
            \o Interleave([i \in 1..Len(kept) |->
                              <<TStr(kept[i].k), TColon>> \o JsonStringify(kept[i].v)],
                          TComma)
            \o <<TRBrace>>

\* String.prototype.replace(/,\s*([\]}])/g, "$1") (App.tsx:477): a comma, and
\* the white space after it, is dropped before a closing bracket or brace
RECURSIVE Sanitize(_)
Sanitize(toks) ==
    IF toks = <<>> THEN <<>>
    ELSE LET j == SkipWs(toks, 2) IN
         IF Head(toks).t = "," /\ (IsAt(toks, j, "]") \/ IsAt(toks, j, "}"))
         THEN Sanitize(SubSeq(toks, j, Len(toks)))
         ELSE <<Head(toks)>> \o Sanitize(Tail(toks))

\* jsonText.split(/\r?\n/): the k-th line lies between the (k-1)-th and the
\* k-th line break
SplitLines(toks) ==
    LET breaks == {i \in 1..Len(toks) : toks[i].t = "nl"}
        BreakAt(k) == IF k = 0 THEN 0
                      ELSE IF k > Cardinality(breaks) THEN Len(toks) + 1
                      ELSE CHOOSE i \in breaks : Cardinality({j \in breaks : j < i}) = k - 1
    IN  [k \in 1..(Cardinality(breaks) + 1) |->
            SubSeq(toks, BreakAt(k - 1) + 1, BreakAt(k) - 1)]

\* .map(l => l.trim()).filter(Boolean) (App.tsx:190)
NonEmptyLines(toks) == SelectSeq(SplitLines(toks), LAMBDA l : l # <<>>)

-----------------------------------------------------------------------------
(* Pair Extractor                                                          *)

NoTags == [def |-> FALSE, v |-> <<>>]

SomeTags(ts) == [def |-> TRUE, v |-> ts]

NoPair == [ok |-> FALSE]

APair(q, a, tags) == [ok |-> TRUE, q |-> q, a |-> a, tags |-> tags]

\* a variant for comparison: "question" is looked for before "q"
QKeysQuestionFirst == <<K_question, K_q, K_prompt, K_ask, K_query, K_Q>>

QKeys == <<K_q, K_question, K_prompt, K_ask, K_query, K_Q>>

AKeys == <<K_a, K_answer, K_response, K_text, K_A>>

\* keys.find(k => k in obj): index of the first key present, 0 when none is
FindKey(keys, obj) ==
    IF \E i \in 1..Len(keys) : HasKey(obj, keys[i])
    THEN CHOOSE i \in 1..Len(keys) :
             /\ HasKey(obj, keys[i])
             /\ \A j \in 1..(i - 1) : ~HasKey(obj, keys[j])
    ELSE 0

\* a variant for comparison: tags are never read
TagsFromAbsent(strs) == NoTags

\* xs.map(coerceStr).filter(Boolean), then undefined when empty
TagsFrom(strs) ==
    LET kept == SelectSeq(strs, LAMBDA s : s # <<>>) IN
    IF kept = <<>> THEN NoTags ELSE SomeTags(kept)

\* extractQAFromObject (App.tsx:91)
extractQAFromObject(obj) ==
    IF ~Truthy(obj) \/ ~IsObjectLike(obj) THEN NoPair
    ELSE LET qi == FindKey(QKeys, obj)
             ai == FindKey(AKeys, obj)
         IN  IF qi = 0 \/ ai = 0 THEN NoPair
             ELSE LET q == coerceStr(Get(obj, QKeys[qi]))
                      a == coerceStr(Get(obj, AKeys[ai]))
                      tg == Get(obj, K_tags)
                  IN  IF q = <<>> \/ a = <<>> THEN NoPair
                      ELSE APair(q, a,
                                 IF IsArray(tg) THEN TagsFrom(MapSeq(coerceStr, tg.items))
                                 ELSE NoTags)

\* a variant for comparison: a tuple is kept even when its question or answer
\* is empty after trimming
extractQAFromArrayLax(arr) ==
    IF ~IsArray(arr) THEN NoPair
    ELSE IF Len(arr.items) < 2 THEN NoPair
    ELSE APair(coerceStr(arr.items[1]), coerceStr(arr.items[2]), NoTags)

\* extractQAFromArray (App.tsx:110)
extractQAFromArray(arr) ==
    IF ~IsArray(arr) THEN NoPair
    ELSE IF Len(arr.items) < 2 THEN NoPair
    ELSE LET q == coerceStr(arr.items[1])
             a == coerceStr(arr.items[2])
         IN  IF q = <<>> \/ a = <<>> THEN NoPair
             ELSE APair(q, a,
                        IF Len(arr.items) >= 3
                        THEN IF IsArray(arr.items[3])
                             THEN TagsFrom(MapSeq(coerceStr, arr.items[3].items))
                             ELSE TagsFrom(MapSeq(Trim,
                                      SplitOn(coerceStr(arr.items[3]), ",", <<>>)))
                        ELSE NoTags)

\* item => (Array.isArray(item) ? extractQAFromArray(item) : extractQAFromObject(item))
extractQA(item) ==
    IF IsArray(item) THEN extractQAFromArray(item) ELSE extractQAFromObject(item)

StripOk(p) == [q |-> p.q, a |-> p.a, tags |-> p.tags]

\* items.map(extractQA).filter(Boolean)
extractAll(items) ==
    MapSeq(StripOk, SelectSeq(MapSeq(extractQA, items), LAMBDA p : p.ok))

-----------------------------------------------------------------------------
(* parseAnyQAPairs                                                         *)

Err(m, key) == [m |-> m, key |-> key]

ErrSyntax == Err("SyntaxError", <<>>)

ErrNoValidExport == Err("No valid Q/A items found in ExportPayload.pairs", <<>>)

ErrNoValidArray == Err("No valid Q/A rows in array", <<>>)

ErrNoValidUnder(wrapKey) == Err("No valid Q/A under", wrapKey)

ErrUnsupported == Err("Unsupported JSON format: could not find Q/A pairs", <<>>)

NoPatch == [def |-> FALSE]

Returned(metaPatch, ps) == [k |-> "return", metaPatch |-> metaPatch, pairs |-> ps]

Thrown(e) == [k |-> "throw", err |-> e]

FellThrough == [k |-> "none"]

\* the metaPatch literal (App.tsx:144-154)
MetaPatchOf(data) ==
    LET b0 == Get(data, K_bot)
        bot == IF b0.t \in {"null", "undefined"} THEN JObj(<<>>) ELSE b0
        t == Get(bot, K_temperature)
        p == Get(bot, K_top_p)
    IN  [def |-> TRUE,
         lab |-> coerceStr(OrElse(Get(bot, K_lab), JStr(<<>>))),
         botName |-> coerceStr(OrElse(Get(bot, K_name), JStr(<<>>))),
         ownerEmail |-> coerceStr(OrElse(Get(bot, K_owner_email), JStr(<<>>))),
         description |-> coerceStr(OrElse(Get(bot, K_description), JStr(<<>>))),
         baseModel |-> coerceStr(OrElse(Get(bot, K_model), JStr(DefaultBaseModel))),
         embedModel |-> coerceStr(OrElse(Get(bot, K_embed_model), JStr(DefaultEmbedModel))),
         temperature |-> IF t.t = "num" THEN t.s ELSE Num02,
         topP |-> IF p.t = "num" THEN p.s ELSE Num095]

\* "bot" in data && "pairs" in data && Array.isArray(data.pairs) (App.tsx:143)
IsExportShape(data) ==
    /\ Truthy(data) /\ IsObjectLike(data)
    /\ HasKey(data, K_bot) /\ HasKey(data, K_pairs)
    /\ IsArray(Get(data, K_pairs))

WrapKeys == <<K_pairs, K_data, K_faqs, K_items, K_records>>

\* WrapKeys.find(k => Array.isArray(data[k])): index, 0 when none (App.tsx:175)
FindWrapKey(data) ==
    IF \E i \in 1..Len(WrapKeys) : IsArray(Get(data, WrapKeys[i]))
    THEN CHOOSE i \in 1..Len(WrapKeys) :
             /\ IsArray(Get(data, WrapKeys[i]))
             /\ \A j \in 1..(i - 1) : ~IsArray(Get(data, WrapKeys[j]))
    ELSE 0

\* the body of the try block (App.tsx:139-184): how control leaves it
TryWholeText(text) ==
    LET parsed == JsonParse(text) IN
    IF ~parsed.ok THEN Thrown(ErrSyntax)
    ELSE LET data == parsed.v IN
         IF IsExportShape(data)
         THEN LET ps == extractAll(Get(data, K_pairs).items) IN
              IF ps = <<>> THEN Thrown(ErrNoValidExport)
              ELSE Returned(MetaPatchOf(data), ps)
         ELSE IF IsArray(data)
         THEN LET ps == extractAll(data.items) IN
              IF ps = <<>> THEN Thrown(ErrNoValidArray) ELSE Returned(NoPatch, ps)
         ELSE IF Truthy(data) /\ IsObjectLike(data) /\ FindWrapKey(data) # 0
         THEN LET wrapKey == WrapKeys[FindWrapKey(data)]
                  ps == extractAll(Get(data, wrapKey).items)
              IN  IF ps = <<>> THEN Thrown(ErrNoValidUnder(wrapKey))
                  ELSE Returned(NoPatch, ps)
         ELSE FellThrough

\* a variant for comparison: a line is always read as an object, never as a
\* tuple
extractLineObjectsOnly(line) ==
    LET r == JsonParse(line) IN
    IF r.ok THEN extractQAFromObject(r.v) ELSE NoPair

\* one pass of the JSONL loop body (App.tsx:194-202)
extractLine(line) ==
    LET r == JsonParse(line) IN
    IF r.ok THEN extractQA(r.v) ELSE NoPair

\* the JSONL attempt and the final throw (App.tsx:189-208)
TryJsonLines(text) ==
    LET lines == NonEmptyLines(text)
        fromJsonl == MapSeq(StripOk,
                            SelectSeq(MapSeq(extractLine, lines), LAMBDA p : p.ok))
    IN  IF Len(lines) > 1 /\ fromJsonl # <<>> THEN Returned(NoPatch, fromJsonl)
        ELSE Thrown(ErrUnsupported)

\* parseAnyQAPairs (App.tsx:134): the catch clause swallows whatever the try
\* block threw, then the JSONL attempt runs
parseAnyQAPairs(text) ==
    LET whole == TryWholeText(text) IN
    IF whole.k = "return" THEN whole ELSE TryJsonLines(text)

-----------------------------------------------------------------------------
(* Validation, slug and export payload                                     *)

\* what "." of a regular expression does not match
IsLineTerminator(c) == c \in {"\n", "\r"}

\* /.+@.+\..+/.test(s) (App.tsx:78)
EmailPattern(s) ==
    \E i, j \in 1..Len(s) :
        /\ s[i] = "@" /\ i > 1 /\ ~IsLineTerminator(s[i - 1])
        /\ s[j] = "." /\ j > i + 1 /\ j < Len(s)
        /\ \A k \in (i + 1)..(j + 1) : k = j \/ ~IsLineTerminator(s[k])

\* validateMeta (App.tsx:74)
validateMeta(m) ==
    /\ Len(Trim(m.lab)) > 0
    /\ Len(Trim(m.botName)) > 0
    /\ EmailPattern(m.ownerEmail)

\* pairs.some(p => (p.q || "").trim() && (p.a || "").trim()) (App.tsx:416)
hasPairs(ps) == \E i \in 1..Len(ps) : Trim(ps[i].q) # <<>> /\ Trim(ps[i].a) # <<>>

\* a variant for comparison: the gate looks at the metadata only
isValidMetaOnly(m, ps) == validateMeta(m)

\* isValid (App.tsx:414)
isValid(m, ps) == validateMeta(m) /\ hasPairs(ps)

UpperCase == <<"A", "B", "C", "D", "E", "F", "G", "H", "I", "J", "K", "L", "M",
               "N", "O", "P", "Q", "R", "S", "T", "U", "V", "W", "X", "Y", "Z">>

LowerCase == <<"a", "b", "c", "d", "e", "f", "g", "h", "i", "j", "k", "l", "m",
               "n", "o", "p", "q", "r", "s", "t", "u", "v", "w", "x", "y", "z">>

Digits == {"0", "1", "2", "3", "4", "5", "6", "7", "8", "9"}

\* toLowerCase on one character
LowerChar(c) ==
    IF \E i \in 1..Len(UpperCase) : UpperCase[i] = c
    THEN LowerCase[CHOOSE i \in 1..Len(UpperCase) : UpperCase[i] = c]
    ELSE c

IsSlugChar(c) ==
    \/ \E i \in 1..Len(LowerCase) : LowerCase[i] = c
    \/ c \in Digits
    \/ IsSpace(c)
    \/ c = "-"

IsHyphen(c) == c = "-"

RECURSIVE SpacesToHyphen(_)
\* .replace(/\s+/g, "-"): every maximal run of white space becomes one hyphen
SpacesToHyphen(s) ==
    IF s = <<>> THEN <<>>
    ELSE IF IsSpace(Head(s))
         THEN IF Len(s) > 1 /\ IsSpace(s[2]) THEN SpacesToHyphen(Tail(s))
              ELSE <<"-">> \o SpacesToHyphen(Tail(s))
         ELSE <<Head(s)>> \o SpacesToHyphen(Tail(s))

RECURSIVE CollapseHyphens(_)
\* .replace(/-+/g, "-"): every maximal run of hyphens becomes one hyphen
CollapseHyphens(s) ==
    IF s = <<>> THEN <<>>
    ELSE IF IsHyphen(Head(s)) /\ Len(s) > 1 /\ IsHyphen(s[2])
         THEN CollapseHyphens(Tail(s))
         ELSE <<Head(s)>> \o CollapseHyphens(Tail(s))

\* slugify (App.tsx:60)
slugify(s) ==
    LET lower == MapSeq(LowerChar, s)
        kept == SelectSeq(lower, IsSlugChar)
    IN  CollapseHyphens(SpacesToHyphen(Trim(kept)))

\* slug (App.tsx:383)
slug(m) ==
    slugify(IF m.lab = <<>> THEN K_lab ELSE m.lab)
    \o <<"-">>
    \o slugify(IF m.botName = <<>> THEN K_bot ELSE m.botName)

StrOr(s, d) == IF s = <<>> THEN d ELSE s

\* an optional string property: undefined when the string is empty
StrOrUndef(s) == IF s = <<>> THEN JUndef ELSE JStr(s)

\* exportPayload (App.tsx:389); now is new Date().toISOString()
exportPayload(m, ps, now) ==
    JObj(<<
      Member(K_bot, JObj(<<
        Member(K_name, JStr(StrOr(Trim(m.botName), UntitledBot))),
        Member(K_lab, JStr(Trim(m.lab))),
        Member(K_owner_email, JStr(Trim(m.ownerEmail))),
        Member(K_description, StrOrUndef(Trim(m.description))),
        Member(K_slug, JStr(slug(m))),
        Member(K_model, JStr(StrOr(m.baseModel, DefaultBaseModel))),
        Member(K_embed_model, JStr(StrOr(m.embedModel, DefaultEmbedModel))),
        Member(K_temperature, JNum(m.temperature)),
        Member(K_top_p, JNum(m.topP))>>)),
      Member(K_pairs, JArr([i \in 1..Len(ps) |->
        JObj(<<
          Member(K_q, JStr(Trim(ps[i].q))),
          Member(K_a, JStr(Trim(ps[i].a))),
          Member(K_tags, IF ps[i].tags # <<>>
                         THEN JArr(MapSeq(JStr, ps[i].tags))
                         ELSE JUndef)>>)])),
      Member(K_created_at, JStr(now)),
      Member(K_version, JStr(VersionStr))>>)

-----------------------------------------------------------------------------
(* Working set and local persistence                                       *)

\* initial useState value of meta (App.tsx:330), also set by handleReset
DefaultMeta ==
    [lab |-> <<>>, botName |-> <<>>, ownerEmail |-> <<>>, description |-> <<>>,
     baseModel |-> DefaultBaseModel, embedModel |-> DefaultEmbedModel,
     temperature |-> Num02, topP |-> Num095]

\* what uid() can return (App.tsx:56): Math.random() gives no guarantee that
\* two calls differ, so every value is possible at every call
UidValues == {<<"u", "1">>, <<"u", "2">>}

\* { id: uid(), q: "", a: "", tags: [] }
BlankPair(id) == [id |-> id, q |-> <<>>, a |-> <<>>, tags |-> <<>>]

MetaJs(m) ==
    JObj(<<Member(K_lab, JStr(m.lab)),
           Member(K_botName, JStr(m.botName)),
           Member(K_ownerEmail, JStr(m.ownerEmail)),
           Member(K_description, JStr(m.description)),
           Member(K_baseModel, JStr(m.baseModel)),
           Member(K_embedModel, JStr(m.embedModel)),
           Member(K_temperature, JNum(m.temperature)),
           Member(K_topP, JNum(m.topP))>>)

PairJs(p) ==
    JObj(<<Member(K_id, JStr(p.id)),
           Member(K_q, JStr(p.q)),
           Member(K_a, JStr(p.a)),
           Member(K_tags, JArr(MapSeq(JStr, p.tags)))>>)

\* the text JSON.stringify({ meta, pairs }) writes (App.tsx:371), kept by the
\* values it was written from
SavedDoc(m, ps) == [t |-> "saved", meta |-> m, pairs |-> ps]

\* the value JSON.parse builds from that text
DocValue(doc) ==
    JObj(<<Member(K_meta, MetaJs(doc.meta)),
           Member(K_pairs, JArr(MapSeq(PairJs, doc.pairs)))>>)

StrOf(x) == x.s

\* the state value that setMeta(parsed.meta) installs, for a stored meta object
MetaOfJs(x) ==
    [lab |-> Get(x, K_lab).s, botName |-> Get(x, K_botName).s,
     ownerEmail |-> Get(x, K_ownerEmail).s, description |-> Get(x, K_description).s,
     baseModel |-> Get(x, K_baseModel).s, embedModel |-> Get(x, K_embedModel).s,
     temperature |-> Get(x, K_temperature).s, topP |-> Get(x, K_topP).s]

PairOfJs(x) ==
    [id |-> Get(x, K_id).s, q |-> Get(x, K_q).s, a |-> Get(x, K_a).s,
     tags |-> MapSeq(StrOf, Get(x, K_tags).items)]

\* the state value that setPairs(parsed.pairs) installs
PairsOfJs(x) == MapSeq(PairOfJs, x.items)

\* localStorage.getItem gives null when the key is absent
NoItem == [k |-> "none"]

Item(doc) == [k |-> "item", doc |-> doc]

\* the document of a stored text that is not JSON
Unparseable == [t |-> "unparseable"]

\* JSON.parse(saved) (App.tsx:361)
ParseStored(doc) ==
    IF doc = Unparseable THEN PFail ELSE [ok |-> TRUE, v |-> DocValue(doc)]

Nothing == [def |-> FALSE]

Some(v) == [def |-> TRUE, v |-> v]

\* the component during its first render's effects: the store, the state the
\* render closed over, and the state updates queued by setMeta and setPairs
World(st, m, ps) == [store |-> st, meta |-> m, pairs |-> ps,
                     newMeta |-> Nothing, newPairs |-> Nothing]

\* a variant for comparison: a stored text that does not parse resets the
\* metadata form
LoadEffectResetting(w) ==
    IF w.store.k = "none" THEN w
    ELSE LET r == ParseStored(w.store.doc) IN
         IF ~r.ok THEN [w EXCEPT !.newMeta = Some([w.meta EXCEPT !.description = <<"?">>])]
         ELSE IF r.v.t = "null" THEN w
         ELSE LET pm == Get(r.v, K_meta)
                  pp == Get(r.v, K_pairs)
              IN  [w EXCEPT
                     !.newMeta = IF Truthy(pm) THEN Some(MetaOfJs(pm)) ELSE Nothing,
                     !.newPairs = IF Truthy(pp) THEN Some(PairsOfJs(pp)) ELSE Nothing]

\* the load effect (App.tsx:357)
LoadEffect(w) ==
    IF w.store.k = "none" THEN w
    ELSE LET r == ParseStored(w.store.doc) IN
         IF ~r.ok THEN w
         ELSE IF r.v.t = "null" THEN w
         ELSE LET pm == Get(r.v, K_meta)
                  pp == Get(r.v, K_pairs)
              IN  [w EXCEPT
                     !.newMeta = IF Truthy(pm) THEN Some(MetaOfJs(pm)) ELSE Nothing,
                     !.newPairs = IF Truthy(pp) THEN Some(PairsOfJs(pp)) ELSE Nothing]

\* the save effect (App.tsx:370), with the meta and pairs of the render it
\* belongs to
SaveEffect(w) == [w EXCEPT !.store = Item(SavedDoc(w.meta, w.pairs))]

\* a variant for comparison: the save effect declared before the load effect
SaveThenLoad(w) == LoadEffect(SaveEffect(w))

\* effects of the first render run in declaration order: load, then save
MountEffects(w) == SaveEffect(LoadEffect(w))

\* the render that follows queued state updates, and its save effect, which
\* runs because meta or pairs changed
Rerender(w) ==
    IF ~w.newMeta.def /\ ~w.newPairs.def THEN w
    ELSE SaveEffect([w EXCEPT
            !.meta = IF w.newMeta.def THEN w.newMeta.v ELSE w.meta,
            !.pairs = IF w.newPairs.def THEN w.newPairs.v ELSE w.pairs,
            !.newMeta = Nothing,
            !.newPairs = Nothing])

-----------------------------------------------------------------------------
(* Banner messages                                                         *)

NoDetail == Err("", <<>>)

Msg(text, detail) == [text |-> text, detail |-> detail]

MsgNone == Msg("", NoDetail)

MsgGate ==
    Msg("Please complete Lab, Bot name, Owner email, and at least one Q/A pair.", NoDetail)

MsgImportFailed(e) == Msg("Could not import JSON: ", e)

MsgSuccess ==
    Msg("Request submitted successfully - please allow 1 business day for your customized chatbot to be deployed!",
        NoDetail)

MsgSubmitFailed(d) == Msg("Submission failed. ", d)

\* text.slice(0, 200) keeps at most this many characters (App.tsx:460)
SnippetMax == 200

Min(a, b) == IF a < b THEN a ELSE b

\* `HTTP ${res.status}${text ? ` - ${text.slice(0, 200)}` : ""}`; the body text
\* is kept by its length
HttpError(status, bodyLen) ==
    [m |-> "HTTP", status |-> status, snippetLen |-> Min(bodyLen, SnippetMax)]

\* the TypeError of a fetch that got no response
NetworkError == [m |-> "Failed to fetch", status |-> 0, snippetLen |-> 0]

HttpResponse(status, bodyLen, bodyIsJson) ==
    [kind |-> "http", status |-> status, bodyLen |-> bodyLen, bodyIsJson |-> bodyIsJson]

NoResponse == [kind |-> "failed", status |-> 0, bodyLen |-> 0, bodyIsJson |-> FALSE]

\* res.ok
ResOk(res) == res.kind = "http" /\ res.status >= 200 /\ res.status <= 299

-----------------------------------------------------------------------------
(* Inputs                                                                  *)

EmailOk == <<"a", "@", "b", ".", "c">>

LabInputs == {<<"L">>}

BotNameInputs == {<<"B">>}

EmailInputs == {EmailOk}

DescriptionInputs == {<<>>}

QInputs == {<<"x">>}

AInputs == {<<"y">>}

TagsInputs == {<<>>}

\* {}
TextBraces == <<TLBrace, TRBrace>>

\* ["x","y"]
TuplePair == <<TLBrack, TStr(<<"x">>), TComma, TStr(<<"y">>), TRBrack>>

\* {"q":"x"}
QuestionOnly == <<TLBrace, TStr(K_q), TColon, TStr(<<"x">>), TRBrace>>

\* {"bot":{"name":"B"},"pairs":[["x","y"],]}
TextPartialExport ==
    <<TLBrace, TStr(K_bot), TColon, TLBrace, TStr(K_name), TColon, TStr(<<"B">>), TRBrace,
      TComma, TStr(K_pairs), TColon, TLBrack>>
    \o TuplePair \o <<TComma, TRBrack, TRBrace>>

\* {"bot":{},"pairs":[{"q":"x"}]}
TextRejectedExport ==
    <<TLBrace, TStr(K_bot), TColon, TLBrace, TRBrace,
      TComma, TStr(K_pairs), TColon, TLBrack>>
    \o QuestionOnly \o <<TRBrack, TRBrace>>

ImportTexts == {TextBraces, TextPartialExport}

\* a working set an earlier session left in the store
StoredMeta ==
    [DefaultMeta EXCEPT !.lab = <<"L">>, !.botName = <<"B">>,
                        !.ownerEmail = EmailOk, !.description = <<"D">>]

StoredPairs == <<[id |-> <<"u", "1">>, q |-> <<"x">>, a |-> <<"y">>, tags |-> << <<"t">> >>]>>

\* the store holds nothing, a text that does not parse, or what the save
\* effect of an earlier session wrote
InitialStores == {NoItem, Item(Unparseable), Item(SavedDoc(StoredMeta, StoredPairs))}

Responses ==
    {HttpResponse(200, 2, TRUE), HttpResponse(299, 5, FALSE),
     HttpResponse(500, 250, FALSE), NoResponse}

-----------------------------------------------------------------------------
(* The App component                                                       *)

NoCall == <<>>

CallIdle ==
    /\ given = Nothing
    /\ jsonText = NoCall
    /\ outcome = FellThrough
    /\ pc = "start"

Init ==
    /\ phase = "mount"
    /\ meta = DefaultMeta
    /\ \E id \in UidValues : pairs = <<BlankPair(id)>>
    /\ store \in InitialStores
    /\ importOpen = FALSE
    /\ importText = TextBraces
    /\ submitState = "idle"
    /\ submitMessage = MsgNone
    /\ inflight = 0
    /\ CallIdle

\* the first render's effects and the render they cause
Mount ==
    /\ phase = "mount"
    /\ LET w == Rerender(MountEffects(World(store, meta, pairs))) IN
           /\ meta' = w.meta
           /\ pairs' = w.pairs
           /\ store' = w.store
    /\ phase' = "ready"
    /\ UNCHANGED <<importOpen, importText, submitState, submitMessage, inflight, callVars>>

\* a render with new meta or pairs, and its save effect
Commit(m, ps) ==
    /\ meta' = m
    /\ pairs' = ps
    /\ store' = SaveEffect(World(store, m, ps)).store

\* onChange of the metadata inputs (App.tsx:586-598)
EditMeta ==
    /\ phase = "ready"
    /\ \/ \E v \in LabInputs : Commit([meta EXCEPT !.lab = v], pairs)
       \/ \E v \in BotNameInputs : Commit([meta EXCEPT !.botName = v], pairs)
       \/ \E v \in EmailInputs : Commit([meta EXCEPT !.ownerEmail = v], pairs)
       \/ \E v \in DescriptionInputs : Commit([meta EXCEPT !.description = v], pairs)
    /\ UNCHANGED <<phase, importOpen, importText, submitState, submitMessage, inflight, callVars>>

PairIds == {pairs[i].id : i \in 1..Len(pairs)}

\* prev.map(p => (p.id === id ? { ...p, ...patch } : p)) (App.tsx:422)
updatePairs(prev, id, field, v) ==
    [i \in 1..Len(prev) |->
        IF prev[i].id = id
        THEN CASE field = "q" -> [prev[i] EXCEPT !.q = v]
               [] field = "a" -> [prev[i] EXCEPT !.a = v]
               [] OTHER -> [prev[i] EXCEPT !.tags = v]
        ELSE prev[i]]

\* updatePair (App.tsx:421), called by the pair editors with the pair's own id
updatePair ==
    /\ phase = "ready"
    /\ \E id \in PairIds :
          \/ \E v \in QInputs : Commit(meta, updatePairs(pairs, id, "q", v))
          \/ \E v \in AInputs : Commit(meta, updatePairs(pairs, id, "a", v))
          \/ \E v \in TagsInputs : Commit(meta, updatePairs(pairs, id, "tags", v))
    /\ UNCHANGED <<phase, importOpen, importText, submitState, submitMessage, inflight, callVars>>

\* addPair (App.tsx:424)
addPair ==
    /\ phase = "ready"
    /\ Len(pairs) < MaxPairs
    /\ \E id \in UidValues : Commit(meta, Append(pairs, BlankPair(id)))
    /\ UNCHANGED <<phase, importOpen, importText, submitState, submitMessage, inflight, callVars>>

\* prev => (prev.length <= 1 ? prev : prev.filter(p => p.id !== id)) (App.tsx:428)
removeFrom(prev, id) ==
    IF Len(prev) <= 1 THEN prev ELSE SelectSeq(prev, LAMBDA p : p.id # id)

\* removePair (App.tsx:427)
removePair ==
    /\ phase = "ready"
    /\ \E id \in PairIds :
          LET next == removeFrom(pairs, id) IN
          IF Len(pairs) <= 1
          THEN UNCHANGED <<meta, pairs, store>>
          ELSE Commit(meta, next)
    /\ UNCHANGED <<phase, importOpen, importText, submitState, submitMessage, inflight, callVars>>

\* Array.prototype.splice(i, 1) on a 0-based index
RemoveAt(s, i) == SubSeq(s, 1, i) \o SubSeq(s, i + 2, Len(s))

\* Array.prototype.splice(i, 0, x) on a 0-based index
InsertAt(s, i, x) == SubSeq(s, 1, i) \o <<x>> \o SubSeq(s, i + 1, Len(s))

\* prev.findIndex(p => p.id === id), 0-based, -1 when absent
findIndex(prev, id) ==
    IF \E i \in 1..Len(prev) : prev[i].id = id
    THEN (CHOOSE i \in 1..Len(prev) :
              /\ prev[i].id = id
              /\ \A j \in 1..(i - 1) : prev[j].id # id) - 1
    ELSE -1

\* the updater of movePair (App.tsx:431)
moveIn(prev, id, dir) ==
    LET idx == findIndex(prev, id)
        target == idx + dir
    IN  IF idx < 0 THEN prev
        ELSE IF target < 0 \/ target >= Len(prev) THEN prev
        ELSE InsertAt(RemoveAt(prev, idx), target, prev[idx + 1])

\* movePair (App.tsx:430)
movePair ==
    /\ phase = "ready"
    /\ \E id \in PairIds, dir \in {-1, 1} :
          LET next == moveIn(pairs, id, dir) IN
          IF findIndex(pairs, id) + dir < 0 \/ findIndex(pairs, id) + dir >= Len(pairs)
          THEN UNCHANGED <<meta, pairs, store>>
          ELSE Commit(meta, next)
    /\ UNCHANGED <<phase, importOpen, importText, submitState, submitMessage, inflight, callVars>>

\* handleSubmit up to its await (App.tsx:443-456)
handleSubmit ==
    /\ phase = "ready"
    /\ IF ~isValid(meta, pairs)
       THEN /\ submitState' = "error"
            /\ submitMessage' = MsgGate
            /\ UNCHANGED inflight
       ELSE /\ inflight < MaxInflight
            /\ submitState' = "idle"
            /\ submitMessage' = MsgNone
            /\ inflight' = inflight + 1
    /\ UNCHANGED <<phase, meta, pairs, store, importOpen, importText, callVars>>

\* a variant for comparison: every response counts as a success, whatever its
\* status
SettledIgnoringStatus(res) ==
    IF res.kind = "failed" THEN <<"error", MsgSubmitFailed(NetworkError)>>
    ELSE <<"success", MsgSuccess>>

\* the banner handleSubmit ends with once fetch settles (App.tsx:458-471)
Settled(res) ==
    IF res.kind = "failed" THEN <<"error", MsgSubmitFailed(NetworkError)>>
    ELSE IF ~ResOk(res) THEN <<"error", MsgSubmitFailed(HttpError(res.status, res.bodyLen))>>
    ELSE <<"success", MsgSuccess>>

\* handleSubmit after its await: the response or the transport failure arrives
SettlesWith(res) ==
    /\ phase = "ready"
    /\ inflight > 0
    /\ submitState' = Settled(res)[1]
    /\ submitMessage' = Settled(res)[2]
    /\ inflight' = inflight - 1
    /\ UNCHANGED <<phase, meta, pairs, store, importOpen, importText, callVars>>

SubmitSettles == \E res \in Responses : SettlesWith(res)

\* "Paste JSON" (App.tsx:613)
OpenImport ==
    /\ phase = "ready"
    /\ importOpen' = TRUE
    /\ UNCHANGED <<phase, meta, pairs, store, importText, submitState, submitMessage,
                   inflight, callVars>>

\* "Close" and "Cancel" of the import dialog (App.tsx:674, 680)
CloseImport ==
    /\ phase = "ready"
    /\ importOpen
    /\ importOpen' = FALSE
    /\ UNCHANGED <<phase, meta, pairs, store, importText, submitState, submitMessage,
                   inflight, callVars>>

\* onChange of the import text area (App.tsx:677)
EditImportText ==
    /\ phase = "ready"
    /\ importOpen
    /\ \E t \in ImportTexts : importText' = t
    /\ UNCHANGED <<phase, meta, pairs, store, importOpen, submitState, submitMessage,
                   inflight, callVars>>

\* handleFileOpen (App.tsx:525): the file's text arrives and the dialog opens
handleFileOpen ==
    /\ phase = "ready"
    /\ \E t \in ImportTexts : importText' = t
    /\ importOpen' = TRUE
    /\ UNCHANGED <<phase, meta, pairs, store, submitState, submitMessage, inflight, callVars>>

\* the setMeta updater of handleImportJSON (App.tsx:482): a ?? b is a unless a
\* is null or undefined, and every field of metaPatch is a string or a number
mergePatch(prev, metaPatch) ==
    [lab |-> metaPatch.lab, botName |-> metaPatch.botName,
     ownerEmail |-> metaPatch.ownerEmail, description |-> metaPatch.description,
     baseModel |-> metaPatch.baseModel, embedModel |-> metaPatch.embedModel,
     temperature |-> metaPatch.temperature, topP |-> metaPatch.topP]

\* incoming.map(p => ({ id: uid(), q: p.q, a: p.a, tags: p.tags ?? [] })) (App.tsx:495)
WithIds(incoming, ids) ==
    [i \in 1..Len(incoming) |->
        [id |-> ids[i], q |-> incoming[i].q, a |-> incoming[i].a,
         tags |-> IF incoming[i].tags.def THEN incoming[i].tags.v ELSE <<>>]]

\* parseAnyQAPairs(sanitized) for each text the dialog can hold (App.tsx:477-479)
importOutcome == [t \in ImportTexts |-> parseAnyQAPairs(Sanitize(t))]

\* handleImportJSON (App.tsx:474)
handleImportJSON ==
    /\ phase = "ready"
    /\ importOpen
    /\ \E r \in {importOutcome[importText]} :
       IF r.k = "return"
       THEN /\ \E ids \in [1..Len(r.pairs) -> UidValues] :
                  Commit(IF r.metaPatch.def THEN mergePatch(meta, r.metaPatch) ELSE meta,
                         WithIds(r.pairs, ids))
            /\ importOpen' = FALSE
            /\ UNCHANGED <<submitState, submitMessage>>
       ELSE /\ submitState' = "error"
            /\ submitMessage' = MsgImportFailed(r.err)
            /\ UNCHANGED <<meta, pairs, store, importOpen>>
    /\ UNCHANGED <<phase, importText, inflight, callVars>>

\* handleReset (App.tsx:503), when the user confirms
handleReset ==
    /\ phase = "ready"
    /\ \E id \in UidValues : Commit(DefaultMeta, <<BlankPair(id)>>)
    /\ importText' = TextBraces
    /\ importOpen' = FALSE
    /\ submitState' = "idle"
    /\ submitMessage' = MsgNone
    /\ UNCHANGED <<phase, inflight, callVars>>

Next ==
    \/ Mount
    \/ EditMeta
    \/ updatePair
    \/ addPair
    \/ removePair
    \/ movePair
    \/ handleSubmit
    \/ SubmitSettles
    \/ OpenImport
    \/ CloseImport
    \/ EditImportText
    \/ handleFileOpen
    \/ handleImportJSON
    \/ handleReset

Spec == Init /\ [][Next]_vars


-----------------------------------------------------------------------------
(* Direct calls of exportPayload and parseAnyQAPairs                       *)

\* ["x"," y"]
LinePaddedTuple == <<TLBrack, TStr(<<"x">>), TComma, TStr(<<" ", "y">>), TRBrack>>

\* {"a":"y","q":"x","tags":["t",""]}
LineObjectPair ==
    <<TLBrace, TStr(K_a), TColon, TStr(<<"y">>), TComma, TStr(K_q), TColon, TStr(<<"x">>),
      TComma, TStr(K_tags), TColon, TLBrack, TStr(<<"t">>), TComma, TStr(<<>>), TRBrack,
      TRBrace>>

\* [[
LineOpenTwice == <<TLBrack, TLBrack>>

\* ]]
LineCloseTwice == <<TRBrack, TRBrack>>

\* oops
LineBad == <<TBad>>

\* {"data":[[" ","y"],{"question":"x","answer":"y"},5,["x","y","s, t"]]}
LineWrappedMix ==
    <<TLBrace, TStr(K_data), TColon, TLBrack,
      TLBrack, TStr(<<" ">>), TComma, TStr(<<"y">>), TRBrack, TComma,
      TLBrace, TStr(K_question), TColon, TStr(<<"x">>), TComma,
               TStr(K_answer), TColon, TStr(<<"y">>), TRBrace, TComma,
      TNum(<<"5">>), TComma,
      TLBrack, TStr(<<"x">>), TComma, TStr(<<"y">>), TComma,
               TStr(<<"s", ",", " ", "t">>), TRBrack,
      TRBrack, TRBrace>>

\* {"items":[{"q":"x"}]}
LineWrappedNone ==
    <<TLBrace, TStr(K_items), TColon, TLBrack>> \o QuestionOnly \o <<TRBrack, TRBrace>>

\* the lines a text handed to parseAnyQAPairs is made of
LineCatalog ==
    {<<>>, LinePaddedTuple, LineObjectPair, QuestionOnly, LineOpenTwice, LineCloseTwice,
     LineBad, LineWrappedMix, LineWrappedNone, TextRejectedExport}

\* the texts of one to MaxLines lines
CallTexts ==
    {Interleave(ls, TNl) : ls \in UNION {[1..n -> LineCatalog] : n \in 1..MaxLines}}

\* new Date().toISOString()
NowInputs == {<<"2", "0", "2", "5">>}

PaddedMeta ==
    [DefaultMeta EXCEPT !.lab = <<" ", "L">>, !.botName = <<"B", " ">>,
                        !.ownerEmail = EmailOk, !.description = <<"D">>]

\* a working set an import of {"bot":{"model":""}, ...} leaves, then edited
EmptyModelMeta ==
    [DefaultMeta EXCEPT !.lab = <<"L">>, !.botName = <<"B">>,
                        !.ownerEmail = EmailOk, !.baseModel = <<>>]

ExportMetas == {PaddedMeta, EmptyModelMeta, DefaultMeta}

ExportPairSamples ==
    {BlankPair(<<"u", "1">>),
     [id |-> <<"u", "1">>, q |-> <<"x", " ">>, a |-> <<"y">>, tags |-> << <<"t">> >>],
     [id |-> <<"u", "2">>, q |-> <<"z">>, a |-> <<"y">>, tags |-> <<>>],
     [id |-> <<"u", "2">>, q |-> <<"x">>, a |-> <<" ">>, tags |-> <<>>]}

ExportPairLists == UNION {[1..n -> ExportPairSamples] : n \in 1..MaxPairs}

\* the App component is not running while the functions are called directly
SessionIdle ==
    /\ phase = "mount"
    /\ meta = DefaultMeta
    /\ pairs = <<BlankPair(<<"u", "1">>)>>
    /\ store = NoItem
    /\ importOpen = FALSE
    /\ importText = TextBraces
    /\ submitState = "idle"
    /\ submitMessage = MsgNone
    /\ inflight = 0

ParserInit == SessionIdle /\ CallIdle

\* a caller has a text of its own
GiveText ==
    /\ pc = "start"
    /\ \E t \in CallTexts : jsonText' = t
    /\ given' = Nothing
    /\ pc' = "given"
    /\ UNCHANGED <<outcome, sessionVars>>

\* JSON.stringify(exportPayload) of a working set: the body handleSubmit posts
\* (App.tsx:455)
Export ==
    /\ pc = "start"
    /\ \E m \in ExportMetas, ps \in ExportPairLists, now \in NowInputs :
          /\ given' = Some([meta |-> m, pairs |-> ps])
          /\ jsonText' = JsonStringify(exportPayload(m, ps, now))
    /\ pc' = "given"
    /\ UNCHANGED <<outcome, sessionVars>>

\* parseAnyQAPairs(jsonText)
Parse ==
    /\ pc = "given"
    /\ outcome' = parseAnyQAPairs(jsonText)
    /\ pc' = "done"
    /\ UNCHANGED <<given, jsonText, sessionVars>>

ParserNext ==
    \/ GiveText
    \/ Export
    \/ Parse

ParserSpec == ParserInit /\ [][ParserNext]_vars

-----------------------------------------------------------------------------
(* Properties of the session (Spec)                                        *)

\* C1: in every reachable state of the session the working set holds at
\* least one pair
C1_PairsNonEmpty == pairs # <<>>

\* C9: in every reachable state the ids of the pairs in the working set are
\* pairwise distinct
C9_UniqueIds ==
    \A i, j \in 1..Len(pairs) : i # j => pairs[i].id # pairs[j].id

\* the operation that just ran failed and said so on the banner
BannerTurnsError ==
    /\ submitState' = "error"
    /\ <<submitState', submitMessage'>> # <<submitState, submitMessage>>

\* the startup effects are about to read a stored text that is not JSON
CorruptStartup == phase = "mount" /\ store = Item(Unparseable)

\* C5: every failure path (an import whose parse fails, a submission the gate
\* rejects, a submission that ends in a non-2xx response or a transport
\* failure, a startup read of a corrupt stored text) leaves meta and pairs
\* exactly as they were
C5_FailuresKeepWorkingSet ==
    [][(BannerTurnsError \/ CorruptStartup) => (meta' = meta /\ pairs' = pairs)]_vars

C5_FailedImportSeen ==
    /\ submitState = "error"
    /\ submitMessage = MsgImportFailed(ErrUnsupported)
    /\ meta.lab = <<"L">>
    /\ Len(pairs) = 2

\* lab and bot name non-empty after trimming, owner email of the form
\* something@something.something, and a pair whose question and answer are
\* both non-empty after trimming
GateMet ==
    /\ Trim(meta.lab) # <<>>
    /\ Trim(meta.botName) # <<>>
    /\ EmailPattern(meta.ownerEmail)
    /\ \E i \in 1..Len(pairs) : Trim(pairs[i].q) # <<>> /\ Trim(pairs[i].a) # <<>>

\* C6: a POST is issued only from a state where the metadata is valid and some
\* pair has a non-empty trimmed question and answer; handleSubmit in any other
\* state sets the error banner and issues no POST
C6_PostOnlyWhenValid ==
    [][/\ inflight' > inflight => GateMet
       /\ (handleSubmit /\ ~GateMet) =>
             /\ submitState' = "error"
             /\ submitMessage' = MsgGate
             /\ inflight' = inflight]_vars

C6_BlankPairsRejected ==
    /\ submitState = "error"
    /\ submitMessage = MsgGate
    /\ Trim(meta.lab) # <<>> /\ Trim(meta.botName) # <<>> /\ EmailPattern(meta.ownerEmail)
    /\ \A i \in 1..Len(pairs) : pairs[i].q = <<>> /\ pairs[i].a = <<>>
    /\ inflight = 0

\* the bot object of the text in the import dialog
ImportedBot ==
    LET r == JsonParse(Sanitize(importText)) IN
    IF r.ok THEN Get(r.v, K_bot) ELSE JUndef

\* C8: after a successful import of a full export payload, every metadata
\* field that the payload's bot object does not specify keeps the value it had
\* before the import
C8_PatchKeepsUnspecified ==
    [][(handleImportJSON /\ ~importOpen' /\ IsObjectLike(ImportedBot)) =>
          /\ ~HasKey(ImportedBot, K_lab) => meta'.lab = meta.lab
          /\ ~HasKey(ImportedBot, K_name) => meta'.botName = meta.botName
          /\ ~HasKey(ImportedBot, K_owner_email) => meta'.ownerEmail = meta.ownerEmail
          /\ ~HasKey(ImportedBot, K_description) => meta'.description = meta.description
          /\ ~HasKey(ImportedBot, K_model) => meta'.baseModel = meta.baseModel
          /\ ~HasKey(ImportedBot, K_embed_model) => meta'.embedModel = meta.embedModel
          /\ ~HasKey(ImportedBot, K_temperature) => meta'.temperature = meta.temperature
          /\ ~HasKey(ImportedBot, K_top_p) => meta'.topP = meta.topP]_vars

\* the store holds a text that parses to an object with meta and pairs
StoredWorkingSet ==
    /\ store.k = "item"
    /\ store.doc # Unparseable
    /\ Truthy(Get(ParseStored(store.doc).v, K_meta))
    /\ Truthy(Get(ParseStored(store.doc).v, K_pairs))

\* C10: when the store holds a parseable text with meta and pairs at startup,
\* then once the startup effects have run the working set is the stored meta
\* and pairs and the store still holds them
C10_RestoreKeepsStored ==
    [][(phase = "mount" /\ StoredWorkingSet) =>
          /\ meta' = MetaOfJs(Get(ParseStored(store.doc).v, K_meta))
          /\ pairs' = PairsOfJs(Get(ParseStored(store.doc).v, K_pairs))
          /\ store' = store]_vars

C10_Restored ==
    /\ phase = "ready"
    /\ meta = StoredMeta
    /\ pairs = StoredPairs
    /\ store = Item(SavedDoc(StoredMeta, StoredPairs))

-----------------------------------------------------------------------------
(* Properties of parseAnyQAPairs and exportPayload (ParserSpec)            *)

\* the whole text parses to one of the shapes tried before JSONL: a full
\* export object, a top-level array, an object with a wrapper key
ShapeMatched(text) ==
    LET r == JsonParse(text) IN
    /\ r.ok
    /\ \/ IsExportShape(r.v)
       \/ IsArray(r.v)
       \/ Truthy(r.v) /\ IsObjectLike(r.v) /\ FindWrapKey(r.v) # 0

\* C2: whenever the whole text matches one of shapes 1-3, success or failure
\* and the returned pairs are decided by that shape alone, and no pair
\* obtained by line-by-line parsing is returned
C2_FirstMatchWins ==
    (pc = "done" /\ ShapeMatched(jsonText)) =>
        \E whole \in {TryWholeText(jsonText)} :
            /\ outcome.k = whole.k
            /\ outcome.k = "return" => outcome = whole

\* the values of the lines that parse, when the text has more than one line
LineRecords(text) ==
    LET lines == NonEmptyLines(text)
        parsed == SelectSeq(MapSeq(JsonParse, lines), LAMBDA r : r.ok)
    IN  IF Len(lines) > 1 THEN {[i \in 1..Len(parsed) |-> parsed[i].v]} ELSE {}

\* the array of records of the shape the whole text has, if it has one
ShapeRecords(text) ==
    LET r == JsonParse(text) IN
    IF ~r.ok THEN {}
    ELSE IF IsExportShape(r.v) THEN {Get(r.v, K_pairs).items}
    ELSE IF IsArray(r.v) THEN {r.v.items}
    ELSE IF Truthy(r.v) /\ IsObjectLike(r.v) /\ FindWrapKey(r.v) # 0
    THEN {Get(r.v, WrapKeys[FindWrapKey(r.v)]).items}
    ELSE {}

\* the valid records of each list of records a strategy looks at, in order
ValidRecordLists(text) ==
    {extractAll(recs) : recs \in ShapeRecords(text) \cup LineRecords(text)}

WellFormedPair(p) ==
    /\ p.q # <<>> /\ Trim(p.q) = p.q
    /\ p.a # <<>> /\ Trim(p.a) = p.a

\* C3: parseAnyQAPairs either returns a non-empty list of pairs with non-empty
\* trimmed question and answer, which are the valid records of the input in
\* their original order with the rejected ones skipped, or it fails, and it
\* fails only when no list of records holds a valid record
C3_SkipsBadRecords ==
    pc = "done" =>
        \E valid \in {ValidRecordLists(jsonText)} :
            /\ outcome.k \in {"return", "throw"}
            /\ outcome.k = "return" =>
                  /\ outcome.pairs # <<>>
                  /\ \A i \in 1..Len(outcome.pairs) : WellFormedPair(outcome.pairs[i])
                  /\ outcome.pairs \in valid
            /\ outcome.k = "throw" => \A ps \in valid : ps = <<>>

C3_RejectedSkipped ==
    /\ pc = "done"
    /\ jsonText = LineWrappedMix
    /\ outcome.k = "return"
    /\ Len(outcome.pairs) = 2

\* C4: a full export shape whose pairs are all rejected fails with the "no
\* valid pairs" error, a wrapper key whose array yields no pair fails with the
\* error naming that key, and the "unsupported format" error is raised only
\* when no shape was recognised
C4_ErrorNamesCause ==
    pc = "done" =>
        LET r == JsonParse(jsonText) IN
        /\ (r.ok /\ IsExportShape(r.v) /\ ValidRecordLists(jsonText) = {<<>>}) =>
               outcome = Thrown(ErrNoValidExport)
        /\ (r.ok /\ ~IsExportShape(r.v) /\ ~IsArray(r.v) /\ ShapeMatched(jsonText)
                 /\ ValidRecordLists(jsonText) = {<<>>}) =>
               outcome = Thrown(ErrNoValidUnder(WrapKeys[FindWrapKey(r.v)]))
        /\ outcome = Thrown(ErrUnsupported) => ~ShapeMatched(jsonText)

\* the metadata exportPayload writes and the export branch reads back
ExportedMeta(m) ==
    [def |-> TRUE,
     lab |-> Trim(m.lab),
     botName |-> Trim(m.botName),
     ownerEmail |-> Trim(m.ownerEmail),
     description |-> Trim(m.description),
     baseModel |-> IF m.baseModel = <<>> THEN DefaultBaseModel ELSE m.baseModel,
     embedModel |-> IF m.embedModel = <<>> THEN DefaultEmbedModel ELSE m.embedModel,
     temperature |-> m.temperature,
     topP |-> m.topP]

\* a pair without its id, trimmed; an empty tag list reads back as absent
ExportedPair(p) ==
    [q |-> Trim(p.q), a |-> Trim(p.a),
     tags |-> IF p.tags = <<>> THEN NoTags ELSE SomeTags(p.tags)]

IsComplete(p) == Trim(p.q) # <<>> /\ Trim(p.a) # <<>>

\* a working set that passes the submission gate was exported and parsed
RoundTripDone ==
    /\ pc = "done"
    /\ given.def
    /\ isValid(given.v.meta, given.v.pairs)

\* C7 as stated: the round trip recovers the metadata and every pair, the same
\* number in the same order
C7_RoundTripAllPairs ==
    RoundTripDone =>
        /\ outcome.k = "return"
        /\ outcome.metaPatch = ExportedMeta(given.v.meta)
        /\ Len(outcome.pairs) = Len(given.v.pairs)
        /\ outcome.pairs = MapSeq(ExportedPair, given.v.pairs)

\* C7: the round trip takes the full-export strategy and recovers the trimmed
\* metadata and, in order, the pairs whose trimmed question and answer are
\* both non-empty
C7_RoundTripCompletePairs ==
    RoundTripDone =>
        /\ outcome.k = "return"
        /\ outcome.metaPatch = ExportedMeta(given.v.meta)
        /\ outcome.pairs = MapSeq(ExportedPair, SelectSeq(given.v.pairs, IsComplete))

C7_BlankPairDropped ==
    /\ RoundTripDone
    /\ \E i \in 1..Len(given.v.pairs) : ~IsComplete(given.v.pairs[i])
    /\ \E i \in 1..Len(given.v.pairs) : given.v.pairs[i].tags # <<>>
    /\ outcome.k = "return"
    /\ Len(outcome.pairs) < Len(given.v.pairs)

-----------------------------------------------------------------------------
(* Direct calls of validateMeta, slugify and the pair extractors           *)

\* the strings of at most n characters over chars
StringsOver(chars, n) == UNION {[1..k -> chars] : k \in 0..n}

EmailChars == {"a", " ", "@", "."}

\* owner emails: every string of up to MaxEmailLen characters, and two with a
\* line break
EmailSamples ==
    StringsOver(EmailChars, MaxEmailLen)
    \cup {<<"a", "\n", "@", "b", ".", "c">>, <<"\n", "@", "b", ".", "c">>}

LabSamples == {<<>>, <<" ">>, <<"L">>, <<" ", "L", " ">>}

BotNameSamples == {<<>>, <<"B">>, <<"\t">>}

MetaSamples ==
    {[DefaultMeta EXCEPT !.lab = l, !.botName = b, !.ownerEmail = e] :
        l \in LabSamples, b \in BotNameSamples, e \in EmailSamples}

\* what a direct call returned
Result(fn, v) == [k |-> fn, v |-> v]

UtilInit == SessionIdle /\ CallIdle

\* validateMeta(meta)
CallValidateMeta ==
    /\ pc = "start"
    /\ \E m \in MetaSamples :
          /\ given' = Some(m)
          /\ outcome' = Result("validateMeta", validateMeta(m))
    /\ pc' = "done"
    /\ UNCHANGED <<jsonText, sessionVars>>

SlugChars == {"a", "A", "1", " ", "-", "!"}

\* arguments of slugify: every string of up to MaxSlugLen characters
SlugSamples == StringsOver(SlugChars, MaxSlugLen)

\* slugify(s)
CallSlugify ==
    /\ pc = "start"
    /\ \E str \in SlugSamples :
          /\ given' = Some(str)
          /\ outcome' = Result("slugify", slugify(str))
    /\ pc' = "done"
    /\ UNCHANGED <<jsonText, sessionVars>>

\* a property whose value is its own name after a space, one for each key
\* the extractor looks for
NamedMembers ==
    {Member(k, JStr(<<" ">> \o k)) :
        k \in {K_q, K_question, K_prompt, K_ask, K_query, K_Q,
               K_a, K_answer, K_response, K_text, K_A}}

\* properties with values that are empty, blank, null or not a string, and
\* one the extractor does not look for
OddMembers ==
    {Member(K_q, JNull), Member(K_q, JStr(<<" ">>)), Member(K_question, JNum(<<"5">>)),
     Member(K_a, JStr(<<>>)), Member(K_a, JBool(FALSE)), Member(K_answer, JNull),
     Member(K_name, JStr(<<"n">>))}

\* the objects of up to MaxMembers properties with distinct names, and some
\* values that are no objects
ObjectSamples ==
    {JObj(ms) : ms \in {m \in UNION {[1..n -> NamedMembers \cup OddMembers] :
                                        n \in 0..MaxMembers} :
                           \A i, j \in 1..Len(m) : i # j => m[i].k # m[j].k}}
    \cup {JNull, JUndef, JStr(<<"x">>), JNum(<<"5">>)}

ItemSamples == {JStr(<<"x">>), JStr(<<" ", "y">>), JStr(<<" ">>), JNull, JNum(<<"5">>)}

\* the arrays of up to MaxMembers items
ArraySamples == {JArr(xs) : xs \in UNION {[1..n -> ItemSamples] : n \in 0..MaxMembers}}

\* extractQAFromObject(obj)
CallExtractObject ==
    /\ pc = "start"
    /\ \E obj \in ObjectSamples :
          /\ given' = Some(obj)
          /\ outcome' = Result("extractQAFromObject", extractQAFromObject(obj))
    /\ pc' = "done"
    /\ UNCHANGED <<jsonText, sessionVars>>

\* extractQAFromArray(arr)
CallExtractArray ==
    /\ pc = "start"
    /\ \E arr \in ArraySamples :
          /\ given' = Some(arr)
          /\ outcome' = Result("extractQAFromArray", extractQAFromArray(arr))
    /\ pc' = "done"
    /\ UNCHANGED <<jsonText, sessionVars>>

UtilNext ==
    \/ CallValidateMeta
    \/ CallSlugify
    \/ CallExtractObject
    \/ CallExtractArray

UtilSpec == UtilInit /\ [][UtilNext]_vars

-----------------------------------------------------------------------------
(* Properties of validateMeta, slugify and the pair extractors (UtilSpec)  *)

NonSpace(c) == ~IsSpace(c)

\* s holds <non-space>@<non-space>.<non-space>: a non-space character right
\* before an "@", then a run of non-space characters, a ".", and a non-space
\* character
NonSpaceEmail(s) ==
    \E i, j \in 1..Len(s) :
        /\ s[i] = "@" /\ i > 1 /\ NonSpace(s[i - 1])
        /\ s[j] = "." /\ j > i + 1 /\ j < Len(s) /\ NonSpace(s[j + 1])
        /\ \A k \in (i + 1)..(j - 1) : NonSpace(s[k])

\* C11: validateMeta(meta) is true if and only if lab and botName are
\* non-empty after trimming and ownerEmail has the form
\* <non-space>@<non-space>.<non-space>
C11_ValidIffNonSpacePattern ==
    (pc = "done" /\ outcome.k = "validateMeta") =>
        outcome.v = (/\ Trim(given.v.lab) # <<>>
                     /\ Trim(given.v.botName) # <<>>
                     /\ NonSpaceEmail(given.v.ownerEmail))

\* the characters [a-z0-9-]
SlugAlphabet ==
    {"a", "b", "c", "d", "e", "f", "g", "h", "i", "j", "k", "l", "m",
     "n", "o", "p", "q", "r", "s", "t", "u", "v", "w", "x", "y", "z",
     "0", "1", "2", "3", "4", "5", "6", "7", "8", "9", "-"}

\* C12: slugify(s) contains only characters of [a-z0-9-], has no leading
\* hyphen, no trailing hyphen and no two consecutive hyphens
C12_SlugShape ==
    (pc = "done" /\ outcome.k = "slugify") =>
        /\ \A i \in 1..Len(outcome.v) : outcome.v[i] \in SlugAlphabet
        /\ outcome.v # <<>> => outcome.v[1] # "-" /\ outcome.v[Len(outcome.v)] # "-"
        /\ \A i \in 1..(Len(outcome.v) - 1) : ~(outcome.v[i] = "-" /\ outcome.v[i + 1] = "-")

\* the first question key the object has, in the order q, question, prompt,
\* ask, query, Q; the empty string when it has none
FirstQuestionKey(obj) ==
    IF HasKey(obj, K_q) THEN K_q
    ELSE IF HasKey(obj, K_question) THEN K_question
    ELSE IF HasKey(obj, K_prompt) THEN K_prompt
    ELSE IF HasKey(obj, K_ask) THEN K_ask
    ELSE IF HasKey(obj, K_query) THEN K_query
    ELSE IF HasKey(obj, K_Q) THEN K_Q
    ELSE <<>>

\* the first answer key the object has, in the order a, answer, response,
\* text, A
FirstAnswerKey(obj) ==
    IF HasKey(obj, K_a) THEN K_a
    ELSE IF HasKey(obj, K_answer) THEN K_answer
    ELSE IF HasKey(obj, K_response) THEN K_response
    ELSE IF HasKey(obj, K_text) THEN K_text
    ELSE IF HasKey(obj, K_A) THEN K_A
    ELSE <<>>

\* a value as a trimmed string: null and undefined are empty, any other
\* value that is no string is stringified
TrimmedText(x) ==
    IF x.t \in {"null", "undefined"} THEN <<>>
    ELSE IF x.t = "str" THEN Trim(x.s)
    ELSE Trim(JsString(x))

\* C13: extractQAFromObject takes the question and the answer from the first
\* key present of each class, yields no pair when a class is absent or a
\* chosen value is empty after coercion and trimming, and otherwise yields
\* the two trimmed strings; an array of fewer than two items yields no pair
C13_FirstKeysTrimmed ==
    /\ (pc = "done" /\ outcome.k = "extractQAFromObject") =>
          IF FirstQuestionKey(given.v) = <<>> \/ FirstAnswerKey(given.v) = <<>>
          THEN outcome.v = NoPair
          ELSE IF \/ TrimmedText(Get(given.v, FirstQuestionKey(given.v))) = <<>>
                  \/ TrimmedText(Get(given.v, FirstAnswerKey(given.v))) = <<>>
          THEN outcome.v = NoPair
          ELSE /\ outcome.v.ok
               /\ outcome.v.q = TrimmedText(Get(given.v, FirstQuestionKey(given.v)))
               /\ outcome.v.a = TrimmedText(Get(given.v, FirstAnswerKey(given.v)))
    /\ (pc = "done" /\ outcome.k = "extractQAFromArray" /\ Len(given.v.items) < 2) =>
          outcome.v = NoPair

C13_LaterKeyIgnored ==
    /\ pc = "done"
    /\ outcome.k = "extractQAFromObject"
    /\ given.v = JObj(<<Member(K_question, JStr(<<" ">> \o K_question)),
                        Member(K_A, JStr(<<" ">> \o K_A)),
                        Member(K_q, JStr(<<" ">> \o K_q))>>)
    /\ outcome.v = APair(K_q, K_A, NoTags)

-----------------------------------------------------------------------------
(* Property of the JSONL strategy (ParserSpec)                             *)

\* the values of the non-empty lines that parse as JSON, in line order
ParsedLineValues(text) ==
    LET parsed == SelectSeq(MapSeq(JsonParse, NonEmptyLines(text)), LAMBDA r : r.ok)
    IN  [i \in 1..Len(parsed) |-> parsed[i].v]

\* C14: for a text that does not parse as a whole, parseAnyQAPairs returns
\* exactly the pairs of the lines that parse and pass the extractor, in line
\* order, when the text has more than one non-empty line and some line gives
\* a pair; otherwise it fails with the unsupported-format error
C14_JsonLines ==
    (pc = "done" /\ ~JsonParse(jsonText).ok) =>
        \E kept \in {extractAll(ParsedLineValues(jsonText))} :
            IF Len(NonEmptyLines(jsonText)) > 1 /\ kept # <<>>
            THEN outcome = Returned(NoPatch, kept)
            ELSE outcome = Thrown(ErrUnsupported)

C14_BadLineDropped ==
    /\ pc = "done"
    /\ jsonText = Interleave(<<LineObjectPair, LineBad, LinePaddedTuple>>, TNl)
    /\ outcome.k = "return"
    /\ Len(outcome.pairs) = 2
    /\ outcome.pairs[1].tags = SomeTags(<< <<"t">> >>)
    /\ outcome.pairs[2].tags = NoTags

-----------------------------------------------------------------------------
(* Property of the submission banner (Spec)                                *)

\* the response status is 2xx
Status2xx(res) == res.kind = "http" /\ res.status \in 200..299

\* C15: a handleSubmit that passes the gate issues exactly one POST; when its
\* response or transport failure arrives the banner is never left idle: it
\* is "success" with the fixed message exactly when the status is 2xx,
\* whatever the body, and "error" otherwise, the message of a response
\* carrying its status code and at most 200 characters of its body
\* (a handleSubmit step leaves meta, pairs and importText alone; that is
\* tested first)
C15_SubmitEndsFinal ==
    [][/\ (UNCHANGED <<meta, pairs, importText>> /\ handleSubmit /\ GateMet) =>
             /\ inflight' = inflight + 1
             /\ submitState' = "idle"
       /\ inflight' > inflight => (handleSubmit /\ inflight' = inflight + 1)
       /\ inflight' < inflight =>
             /\ submitState' # "idle"
             /\ \E res \in Responses : SettlesWith(res)
             /\ \A res \in Responses :
                   SettlesWith(res) =>
                      IF Status2xx(res)
                      THEN /\ submitState' = "success"
                           /\ submitMessage' = MsgSuccess
                      ELSE /\ submitState' = "error"
                           /\ submitMessage'.text = "Submission failed. "
                           /\ res.kind = "http" =>
                                 /\ submitMessage'.detail.m = "HTTP"
                                 /\ submitMessage'.detail.status = res.status
                                 /\ submitMessage'.detail.snippetLen <= 200
                                 /\ submitMessage'.detail.snippetLen <= res.bodyLen]_vars

C15_LongBodyCut ==
    /\ phase = "ready"
    /\ inflight = 0
    /\ GateMet
    /\ submitState = "error"
    /\ submitMessage = MsgSubmitFailed(HttpError(500, 250))
    /\ submitMessage.detail.snippetLen = 200

====
